---------------------------- MODULE Spec2Model ----------------------------
(***************************************************************************)
(* Room Session & Messaging Coordinator of the StealthLAN chat.            *)
(*                                                                         *)
(* The client half (ChatWindow.jsx) is in the repository's sources; the    *)
(* server half (server/socket/chatHandler.js) is only described by the     *)
(* SECURE_MODE_*.md notes, which quote two of its conditions.  The         *)
(* coordinator below follows sections 4.2-4.6 of the specification and     *)
(* the quoted conditions.                                                  *)
(***************************************************************************)
EXTENDS Naturals, Sequences, FiniteSets

(***************************************************************************)
(* Bounds of the model.                                                    *)
(***************************************************************************)
\* Longest inbound event queue of the room.
MaxQueue == 2
\* Longest system-message log before the environment stops sending events.
MaxLog == 2
\* Longest cached message list and longest server log handed to the merge.
MaxStored == 1
MaxServer == 2
\* Repetitions of one open attempt that the history tells apart.
MaxRepeat == 2
\* Longest displayed message list of the window with the burn flag.
MaxShown == 2
\* Clicks on Leave Room during one stay of the window.
MaxSent == 2
\* Steps of the clock while the window receives membership events.
MaxTicks == 2
\* Screenshot detections that get past the isBlocking guard.
MaxShots == 3
\* Calls of handleFileUpload.
MaxUploads == 3
MaxKeys == 3

(***************************************************************************)
(* The room and its users.                                                 *)
(***************************************************************************)
\* room.createdBy: the host.
createdBy == "a"
Users == {"a", "b"}
Modes == {"normal", "secure"}
MemberStates == {"absent", "Active", "DisconnectedGrace", "Left"}
\* (isManualLeave, reason) pairs the clients put into room:leave.
LeaveReasons == {"manual_leave", "component_unmount", "page_unload"}

VARIABLES
    mode,        \* room.mode
    roomAlive,   \* FALSE once the room has been deleted
    ledger,      \* Membership Ledger: user -> MemberStates
    graceTimers, \* ids of the armed grace timers
    queue,       \* the room's serialized inbound event queue
    log,         \* Message Store: flags of the stored system messages
    emitted,     \* outbound events of the event handled last
    lastHandled, \* the event handled last (NoEvent before the first)
    teardowns    \* teardown events since the host last entered its grace window

vars == <<mode, roomAlive, ledger, graceTimers, queue, log, emitted,
          lastHandled, teardowns>>

(***************************************************************************)
(* ChatWindow.jsx: the state of one client window.                         *)
(***************************************************************************)
VARIABLES
    storedMessages,   \* the room's messages in localStorage, as loaded at join
    roomMessages,     \* roomMessages of the room:join acknowledgement
    messages,         \* useState([]): the displayed message list
    viewedFiles,      \* useState(new Set()) of each viewer's window
    filePreviewModal, \* useState(null) of each viewer's window
    openedBefore,     \* history: (viewer, file id) pairs shown by the gate so far
    lastOpen,         \* history: the open attempt made last
    mounted,          \* the window is mounted
    burnAfterReading, \* room.burnAfterReading
    localStorage,     \* the browser's localStorage: key -> value
    lastEvent,        \* history: the handler that ran last
    sent,             \* history: the room:leave events emitted since the mount
    pendingAcks,      \* room:leave callbacks the server has yet to answer
    unloading,        \* beforeunload has fired and the page is still there
    joinPending,      \* the room:join or messages:get callback is yet to be called
    onlineUsers,      \* useState([]): the online roster
    now,              \* Date.now(), in milliseconds since the mount
    overlays,         \* the #screenshot-blocked-overlay elements of the document, in order
    isBlocking,       \* isBlocking.current
    timers,           \* the setTimeout callbacks of triggerScreenshotAlert still to run
    detected,         \* history: the screenshot:detected events emitted
    uploads,          \* each handleFileUpload call: its fetch, its timeout, its message
    uploading,        \* useState(false): the uploading flag
    inputMessage,     \* useState(''): the text of the message input
    typingTimeoutRef, \* typingTimeoutRef.current of the mounted window
    typingTimers,     \* the typing-stop timers still to run
    keystrokes,       \* history: the calls of handleTyping so far
    lastTyping        \* history: the typing event emitted last

mergeVars == <<storedMessages, roomMessages, messages>>
viewVars == <<viewedFiles, filePreviewModal, openedBefore, lastOpen>>
burnVars == <<mounted, burnAfterReading, localStorage, lastEvent>>
leaveVars == <<sent, pendingAcks, unloading, joinPending>>
eventVars == <<onlineUsers, now>>
shotVars == <<overlays, isBlocking, timers, detected>>
uploadVars == <<uploads, uploading>>
typingVars == <<inputMessage, typingTimeoutRef, typingTimers, keystrokes, lastTyping>>

\* What the merge, view-once and room actions leave alone besides.
sessionVars == <<leaveVars, eventVars, shotVars, uploadVars, typingVars>>

\* What the actions of the departures leave alone.
outsideBurn == <<viewVars, eventVars, shotVars, uploadVars, typingVars>>

clientVars == <<mergeVars, viewVars, burnVars, sessionVars>>

\* filePreviewModal === null: no preview is open.
NoPreview == [id |-> "", type |-> "none", fileUrl |-> ""]

\* The step of the clock between two events.
TickMs == 2500

\* roomExpiry: null, as saved for a room without expiresAt.
NoExpiry == 0

\* room.expiresAt of this room, in milliseconds on the model's clock.
expiresAt == TickMs

\* localStorage.getItem(key) === null: the key is not there.
NoItem == [present |-> FALSE, messages |-> <<>>, roomExpiry |-> NoExpiry]

\* Room ids read as character sequences, for String.includes.
RoomId == <<"r", "1">>
OtherRoomId == <<"r", "2">>
\* A room whose id begins with this room's id ("r12" beside "r1").
LongerRoomId == <<"r", "1", "2">>
RoomIds == {RoomId, OtherRoomId, LongerRoomId}

\* getStorageKey: `stealthlan_messages_${roomId}`.
getStorageKey(roomId) == <<"stealthlan_messages_">> \o roomId

\* The key permanentlyDeleteMessages removes first: `messages_${roomId}`.
LegacyKey(roomId) == <<"messages_">> \o roomId

StorageKeys == {getStorageKey(r) : r \in RoomIds} \cup {LegacyKey(r) : r \in RoomIds}

\* No attempt yet.
NoOpen == [viewer |-> "", file |-> "", result |-> "", nth |-> 0]

\* A window that has not joined: nothing cached, nothing displayed.
MergeIdle ==
    /\ storedMessages = <<>>
    /\ roomMessages = <<>>
    /\ messages = <<>>

\* Windows in which no attachment has been opened.
ViewIdle ==
    /\ viewedFiles = [v \in Users |-> {}]
    /\ filePreviewModal = [v \in Users |-> NoPreview]
    /\ openedBefore = {}
    /\ lastOpen = NoOpen

\* A mounted window over an empty localStorage, in a room without the flag.
BurnIdle ==
    /\ mounted = TRUE
    /\ burnAfterReading = FALSE
    /\ localStorage = [k \in StorageKeys |-> NoItem]
    /\ lastEvent = "none"

\* No room:leave emitted, none awaiting its acknowledgement.
LeaveIdle ==
    /\ sent = <<>>
    /\ pendingAcks = 0
    /\ unloading = FALSE
    /\ joinPending = FALSE

\* An empty roster at the time of the mount.
EventIdle ==
    /\ onlineUsers = {}
    /\ now = 0

\* No overlay, no timer, nothing detected.
ShotIdle ==
    /\ overlays = <<>>
    /\ isBlocking = FALSE
    /\ timers = {}
    /\ detected = 0

\* No upload begun.
NoUpload == [phase |-> "idle", timeout |-> "none", sent |-> FALSE, outcome |-> "none"]

UploadIdle ==
    /\ uploads = [i \in 1..MaxUploads |-> NoUpload]
    /\ uploading = FALSE

\* useRef(null): no timer id.
NoTimer == 0

\* Nothing typed, no typing-stop timer.
TypingIdle ==
    /\ inputMessage = ""
    /\ typingTimeoutRef = NoTimer
    /\ typingTimers = {}
    /\ keystrokes = 0
    /\ lastTyping = "none"

SessionIdle == LeaveIdle /\ EventIdle /\ ShotIdle /\ UploadIdle /\ TypingIdle

ClientIdle == MergeIdle /\ ViewIdle /\ BurnIdle /\ SessionIdle

(***************************************************************************)
(* Inbound events.  One record shape for every kind.                       *)
(***************************************************************************)
Event(k, u, m, r, t, i) ==
    [kind |-> k, user |-> u, manual |-> m, reason |-> r, target |-> t, tid |-> i]

NoEvent == Event("none", "", FALSE, "", "", 0)
JoinEvent(u) == Event("join", u, FALSE, "", "", 0)
LeaveEvent(u, m, r) == Event("leave", u, m, r, "", 0)
DisconnectEvent(u) == Event("disconnect", u, FALSE, "transport", "", 0)
KickEvent(u, t) == Event("kick", u, FALSE, "", t, 0)
FireEvent(i) == Event("fire", "", FALSE, "", "", i)

\* Outbound broadcast: event name, semantic flag, set of recipients.
Out(ev, f, to) == [ev |-> ev, flag |-> f, to |-> to]


(***************************************************************************)
(* ChatWindow.jsx: what the client puts on the wire.                       *)
(***************************************************************************)
\* handleLeaveRoom: the Leave Room button, the same payload in both modes.
HandleLeaveRoomEmits(u) == <<LeaveEvent(u, TRUE, "manual_leave")>>

\* Variant: the cleanup emits in secure mode as well.
UnmountEmitsInAnyMode(m, u) == <<LeaveEvent(u, FALSE, "component_unmount")>>

\* Cleanup of the [room?.id, mode] effect: nothing in secure mode.
UnmountEmits(m, u) ==
    IF m = "secure" THEN <<>>
    ELSE <<LeaveEvent(u, FALSE, "component_unmount")>>

\* handleBeforeUnload: registered in normal mode only.
BeforeUnloadEmits(m, u) ==
    IF m = "secure" THEN <<>>
    ELSE <<LeaveEvent(u, FALSE, "page_unload")>>

(***************************************************************************)
(* Leave/Disconnect Classifier.                                            *)
(***************************************************************************)
EventKinds == {"manual", "automatic", "disconnect", "hostDisconnect", "kick"}

\* Variant: every leave notifies, whatever the mode and the flag.
LeaveNotifiesAlways(m, isManualLeave) == TRUE

\* Variant: the isManualLeave flag is not read.
LeaveNotifiesByModeOnly(m, isManualLeave) == m # "secure"

\* chatHandler.js room:leave: notify unless secure and not manual.
LeaveNotifies(m, isManualLeave) == m # "secure" \/ isManualLeave

\* Variant: a disconnect notifies in every mode.
DisconnectNotifiesAlways(m) == TRUE

\* chatHandler.js disconnect: silent in secure mode.
DisconnectNotifies(m) == m # "secure"

\* Variant: an automatic leave is applied in secure mode too (silent removal).
ClassifyAutoApplied(m, k) ==
    CASE k = "manual" ->
           [apply |-> "yes", notify |-> LeaveNotifies(m, TRUE), flag |-> "UserLeave"]
      [] k = "automatic" ->
           [apply |-> "yes", notify |-> LeaveNotifies(m, FALSE),
            flag |-> IF LeaveNotifies(m, FALSE) THEN "UserLeave" ELSE "none"]
      [] k = "disconnect" ->
           [apply |-> "yes", notify |-> DisconnectNotifies(m),
            flag |-> IF DisconnectNotifies(m) THEN "UserLeave" ELSE "none"]
      [] k = "hostDisconnect" ->
           [apply |-> IF m = "secure" THEN "grace-start" ELSE "yes",
            notify |-> DisconnectNotifies(m),
            flag |-> IF DisconnectNotifies(m) THEN "UserLeave" ELSE "none"]
      [] k = "kick" ->
           [apply |-> "yes", notify |-> TRUE, flag |-> "UserKick"]

\* The rule table: [apply, notify, flag] for a mode and an event kind.
Classify(m, k) ==
    CASE k = "manual" ->
           [apply |-> "yes", notify |-> LeaveNotifies(m, TRUE), flag |-> "UserLeave"]
      [] k = "automatic" ->
           IF m = "secure"
           THEN [apply |-> "no", notify |-> LeaveNotifies(m, FALSE), flag |-> "none"]
           ELSE [apply |-> "yes", notify |-> LeaveNotifies(m, FALSE), flag |-> "UserLeave"]
      [] k = "disconnect" ->
           [apply |-> "yes", notify |-> DisconnectNotifies(m),
            flag |-> IF DisconnectNotifies(m) THEN "UserLeave" ELSE "none"]
      [] k = "hostDisconnect" ->
           [apply |-> IF m = "secure" THEN "grace-start" ELSE "yes",
            notify |-> DisconnectNotifies(m),
            flag |-> IF DisconnectNotifies(m) THEN "UserLeave" ELSE "none"]
      [] k = "kick" ->
           [apply |-> "yes", notify |-> TRUE, flag |-> "UserKick"]

\* The classifier input of a room:leave payload.
LeaveKind(e) == IF e.manual THEN "manual" ELSE "automatic"

(***************************************************************************)
(* Helpers of the coordinator.                                             *)
(***************************************************************************)
\* Connected members other than u: the recipients of a broadcast about u.
Remaining(u) == {v \in Users \ {u} : ledger[v] = "Active"}

\* Timer ids carried by the fire events still in the queue.
QueuedTimerIds == {queue[i].tid : i \in {j \in 1..Len(queue) : queue[j].kind = "fire"}}

\* Timer ids in use: armed, or carried by a queued fire event.
UsedTimerIds == graceTimers \cup QueuedTimerIds

\* A fresh timer handle: the least id not in use.
NewTimerId ==
    CHOOSE i \in 1..(Cardinality(UsedTimerIds) + 1) :
        /\ i \notin UsedTimerIds
        /\ \A j \in 1..(Cardinality(UsedTimerIds) + 1) : j \notin UsedTimerIds => i <= j

\* Variant: a fire event is honoured without looking at its timer.
TimerIsLiveAlways(tid) == TRUE

\* Whether a fire event belongs to a timer that is still armed.
TimerIsLive(tid) == tid \in graceTimers

\* Variant: the new timer is stacked on the pending one.
ArmGraceTimerStacked == graceTimers \cup {NewTimerId}

\* The armed timers after a host disconnect: the new one replaces the old.
ArmGraceTimer == {NewTimerId}

(***************************************************************************)
(* Initial state: the room as createdBy has just created it.               *)
(***************************************************************************)
Init ==
    /\ mode \in Modes
    /\ roomAlive = TRUE
    /\ ledger = [u \in Users |-> IF u = createdBy THEN "Active" ELSE "absent"]
    /\ graceTimers = {}
    /\ queue = <<>>
    /\ log = <<>>
    /\ emitted = <<>>
    /\ lastHandled = NoEvent
    /\ teardowns = 0
    /\ ClientIdle

(***************************************************************************)
(* Inbound side: events enter the room's queue.                            *)
(***************************************************************************)
\* The environment keeps sending while the log and the queue have room.
CanSend(n) == Len(queue) + n <= MaxQueue /\ Len(log) < MaxLog

Submit(evs) ==
    /\ queue' = queue \o evs
    /\ UNCHANGED <<mode, roomAlive, ledger, graceTimers, log, emitted,
                   lastHandled, teardowns>>
    /\ UNCHANGED clientVars

\* room:join {roomId, password?}
InboundJoin(u) == CanSend(1) /\ Submit(<<JoinEvent(u)>>)

\* room:leave {roomId, userId, isManualLeave, reason} from any client.
InboundRoomLeave(u, r) == CanSend(1) /\ Submit(<<LeaveEvent(u, r = "manual_leave", r)>>)

\* transport disconnect {reason}
InboundDisconnect(u) == CanSend(1) /\ Submit(<<DisconnectEvent(u)>>)

\* user:kick {roomId, targetUserId}
InboundKick(u, t) == CanSend(1) /\ u # t /\ Submit(<<KickEvent(u, t)>>)

\* The member list renders a kick button for member t only in the host's own
\* window, and never for the host itself.
KickButtonShown(u, t) == createdBy = u /\ t # u

\* handleKickMember after the click is confirmed.
ClientKickClick(u, t) ==
    KickButtonShown(u, t) /\ CanSend(1) /\ Submit(<<KickEvent(u, t)>>)

\* ChatWindow: click on Leave Room.
ClientLeaveClick(u) == CanSend(1) /\ Submit(HandleLeaveRoomEmits(u))

\* ChatWindow: the component unmounts or room.id changes.
ClientUnmount(u) == CanSend(1) /\ Submit(UnmountEmits(mode, u))

\* ChatWindow: the page unloads; the socket closes with it, which is what
\* secure mode relies on ("rely on disconnect handler instead").
ClientPageUnload(u) ==
    /\ CanSend(2)
    /\ Submit(BeforeUnloadEmits(mode, u) \o <<DisconnectEvent(u)>>)

\* The armed grace timer expires: its firing is queued like any other event.
GraceTimerExpire ==
    /\ Len(queue) < MaxQueue
    /\ \E t \in graceTimers \ QueuedTimerIds : Submit(<<FireEvent(t)>>)

(***************************************************************************)
(* Room Coordinator: one handler per event kind, applied to the head of    *)
(* the queue.                                                              *)
(***************************************************************************)
Taken(k) == queue # <<>> /\ Head(queue).kind = k

\* Consume the head; everything else the handler names itself.
Consume ==
    /\ queue' = Tail(queue)
    /\ lastHandled' = Head(queue)
    /\ UNCHANGED clientVars

\* An event absorbed as a no-op.
Absorb ==
    /\ Consume
    /\ emitted' = <<>>
    /\ UNCHANGED <<mode, roomAlive, ledger, graceTimers, log, teardowns>>

\* Append one system message and broadcast it.
Notify(flag, to) ==
    /\ log' = Append(log, flag)
    /\ emitted' = <<Out("message:new", flag, to)>>

\* A join of a member who is neither present nor in its grace window.
JoinFresh(u) ==
    /\ ledger' = [ledger EXCEPT ![u] = "Active"]
    /\ Notify("UserJoin", Remaining(u))
    /\ UNCHANGED <<mode, roomAlive, graceTimers, teardowns>>

\* Variant: the reconnect is treated as an ordinary join.
HostReconnectAsJoin(u) == JoinFresh(u)

\* Variant: the reconnect restores Active and leaves the timer armed.
HostReconnectNoCancel(u) ==
    /\ ledger' = [ledger EXCEPT ![u] = "Active"]
    /\ emitted' = <<>>
    /\ UNCHANGED <<mode, roomAlive, graceTimers, log, teardowns>>

\* Host reconnect inside the grace window: cancel the timer, no broadcast.
HostReconnect(u) ==
    /\ ledger' = [ledger EXCEPT ![u] = "Active"]
    /\ graceTimers' = {}
    /\ emitted' = <<>>
    /\ UNCHANGED <<mode, roomAlive, log, teardowns>>

HandleJoin ==
    /\ Taken("join")
    /\ LET u == Head(queue).user IN
       IF ~roomAlive \/ ledger[u] = "Active" THEN Absorb
       ELSE /\ Consume
            /\ IF ledger[u] = "DisconnectedGrace" THEN HostReconnect(u)
               ELSE JoinFresh(u)

\* The ledger after a leave of u classified as c.
LeaveLedger(c, u) ==
    IF c.apply = "no" THEN ledger ELSE [ledger EXCEPT ![u] = "Left"]

\* Variant: a leave is applied without looking the member up in the ledger.
HandleLeaveUnchecked ==
    /\ Taken("leave")
    /\ LET e == Head(queue)
           u == e.user
           c == Classify(mode, LeaveKind(e))
       IN
       IF ~roomAlive THEN Absorb
       ELSE /\ Consume
            /\ ledger' = LeaveLedger(c, u)
            /\ IF c.notify THEN Notify("UserLeave", Remaining(u))
               ELSE emitted' = <<>> /\ log' = log
            /\ UNCHANGED <<mode, roomAlive, graceTimers, teardowns>>

HandleLeave ==
    /\ Taken("leave")
    /\ LET e == Head(queue)
           u == e.user
           c == Classify(mode, LeaveKind(e))
       IN
       IF ~roomAlive \/ ledger[u] # "Active" THEN Absorb
       ELSE /\ Consume
            /\ ledger' = LeaveLedger(c, u)
            /\ IF c.notify THEN Notify("UserLeave", Remaining(u))
               ELSE emitted' = <<>> /\ log' = log
            /\ UNCHANGED <<mode, roomAlive, graceTimers, teardowns>>

\* Host disconnect: enter (or stay in) the grace window, one timer.
HostDisconnect(u) ==
    /\ ledger' = [ledger EXCEPT ![u] = "DisconnectedGrace"]
    /\ graceTimers' = ArmGraceTimer
    /\ teardowns' = IF ledger[u] = "Active" THEN 0 ELSE teardowns
    /\ emitted' = <<>>
    /\ UNCHANGED <<mode, roomAlive, log>>

\* Variant: every disconnect gets the grace window.
MemberDisconnectWithGrace(u) == HostDisconnect(u)

\* Non-host disconnect: no grace window.
MemberDisconnect(u) ==
    LET c == Classify(mode, "disconnect") IN
    /\ ledger' = [ledger EXCEPT ![u] = "Left"]
    /\ IF c.notify THEN Notify(c.flag, Remaining(u))
       ELSE emitted' = <<>> /\ log' = log
    /\ UNCHANGED <<mode, roomAlive, graceTimers, teardowns>>

HandleDisconnect ==
    /\ Taken("disconnect")
    /\ LET u == Head(queue).user IN
       IF ~roomAlive \/ ledger[u] \in {"absent", "Left"} THEN Absorb
       ELSE /\ Consume
            /\ IF u = createdBy THEN HostDisconnect(u) ELSE MemberDisconnect(u)

\* Variant: any Active member may kick.
HandleKickByAnyMember ==
    /\ Taken("kick")
    /\ LET e == Head(queue)
           c == Classify(mode, "kick")
       IN
       IF ~roomAlive THEN Absorb
       ELSE IF ledger[e.user] # "Active"
       THEN /\ Consume
            /\ emitted' = <<Out("error", "Unauthorized", {e.user})>>
            /\ UNCHANGED <<mode, roomAlive, ledger, graceTimers, log, teardowns>>
       ELSE IF ledger[e.target] # "Active" THEN Absorb
       ELSE /\ Consume
            /\ ledger' = [ledger EXCEPT ![e.target] = "Left"]
            /\ log' = Append(log, c.flag)
            /\ emitted' = <<Out("message:new", c.flag, Remaining(e.target)),
                            Out("user:kicked", c.flag, {e.target})>>
            /\ UNCHANGED <<mode, roomAlive, graceTimers, teardowns>>

HandleKick ==
    /\ Taken("kick")
    /\ LET e == Head(queue)
           c == Classify(mode, "kick")
       IN
       IF ~roomAlive THEN Absorb
       ELSE IF e.user # createdBy \/ ledger[e.user] # "Active"
       THEN /\ Consume
            /\ emitted' = <<Out("error", "Unauthorized", {e.user})>>
            /\ UNCHANGED <<mode, roomAlive, ledger, graceTimers, log, teardowns>>
       ELSE IF ledger[e.target] # "Active" THEN Absorb
       ELSE /\ Consume
            /\ ledger' = [ledger EXCEPT ![e.target] = "Left"]
            /\ log' = Append(log, c.flag)
            /\ emitted' = <<Out("message:new", c.flag, Remaining(e.target)),
                            Out("user:kicked", c.flag, {e.target})>>
            /\ UNCHANGED <<mode, roomAlive, graceTimers, teardowns>>

\* Variant: the host is marked Left and nobody is told.
PreserveRoomSilently ==
    /\ ledger' = [ledger EXCEPT ![createdBy] = "Left"]
    /\ graceTimers' = graceTimers \ {Head(queue).tid}
    /\ emitted' = <<>>
    /\ UNCHANGED <<mode, roomAlive, log>>

\* Grace timeout, preserve-on-host-leave policy (normal mode).
PreserveRoom ==
    /\ ledger' = [ledger EXCEPT ![createdBy] = "Left"]
    /\ graceTimers' = graceTimers \ {Head(queue).tid}
    /\ Notify("HostLeave", Remaining(createdBy))
    /\ UNCHANGED <<mode, roomAlive>>

\* Variant: the room is flagged deleted and its log is kept.
DeleteRoomKeepLog ==
    /\ roomAlive' = FALSE
    /\ ledger' = [u \in Users |-> "absent"]
    /\ graceTimers' = {}
    /\ emitted' = <<Out("room:deleted-by-host", "RoomDeletedByHost",
                        Remaining(createdBy))>>
    /\ UNCHANGED <<mode, log>>

\* Grace timeout, delete-on-host-loss policy (secure mode).
DeleteRoom ==
    /\ roomAlive' = FALSE
    /\ ledger' = [u \in Users |-> "absent"]
    /\ log' = <<>>
    /\ graceTimers' = {}
    /\ emitted' = <<Out("room:deleted-by-host", "RoomDeletedByHost",
                        Remaining(createdBy))>>
    /\ UNCHANGED mode

HandleTimerFire ==
    /\ Taken("fire")
    /\ IF ~TimerIsLive(Head(queue).tid) THEN Absorb
       ELSE /\ Consume
            /\ teardowns' = teardowns + 1
            /\ IF mode = "secure" THEN DeleteRoom ELSE PreserveRoom

Next ==
    \/ \E u \in Users : InboundJoin(u)
    \/ \E u \in Users, r \in LeaveReasons : InboundRoomLeave(u, r)
    \/ \E u \in Users : InboundDisconnect(u)
    \/ \E u, t \in Users : InboundKick(u, t)
    \/ \E u \in Users : ClientLeaveClick(u)
    \/ \E u, t \in Users : ClientKickClick(u, t)
    \/ \E u \in Users : ClientUnmount(u)
    \/ \E u \in Users : ClientPageUnload(u)
    \/ GraceTimerExpire
    \/ HandleJoin
    \/ HandleLeave
    \/ HandleDisconnect
    \/ HandleKick
    \/ HandleTimerFire

Spec == Init /\ [][Next]_vars

(***************************************************************************)
(* Properties.                                                             *)
(***************************************************************************)
\* A step in which the coordinator handles the head of the queue.
Handles(k) == queue # <<>> /\ Head(queue).kind = k /\ queue' = Tail(queue)

AutomaticReasons == {"component_unmount", "page_unload"}

\* Indices of the outbound events that carry flag f.
Flagged(out, f) == {i \in 1..Len(out) : out[i].flag = f}

C3_HostReconnectRestores ==
    [][/\ (/\ Handles("disconnect")
           /\ Head(queue).user = createdBy
           /\ roomAlive
           /\ ledger[createdBy] = "Active")
          => (/\ emitted' = <<>>
              /\ log' = log
              /\ roomAlive')
       /\ (/\ Handles("join")
           /\ Head(queue).user = createdBy
           /\ ledger[createdBy] = "DisconnectedGrace")
          => (/\ ledger' = [ledger EXCEPT ![createdBy] = "Active"]
              /\ graceTimers' = {}
              /\ roomAlive'
              /\ teardowns' = teardowns
              /\ log' = log
              /\ emitted' = <<>>)]_vars

\* C3 witness: the host is Active again after a reconnect that found the
\* grace timer already expired into the queue; nothing was emitted, nothing
\* torn down.
C3_Witness ==
    /\ lastHandled = JoinEvent(createdBy)
    /\ ledger[createdBy] = "Active"
    /\ ledger["b"] = "Active"
    /\ graceTimers = {}
    /\ QueuedTimerIds # {}
    /\ roomAlive
    /\ teardowns = 0
    /\ emitted = <<>>

\* C4: a grace window ends in at most one teardown; a fire event of the armed
\* timer makes exactly one, a fire event of a replaced or cancelled timer none.
C4_ExactlyOneTeardown ==
    [][/\ teardowns' <= 1
       /\ (Handles("fire") /\ Head(queue).tid \in graceTimers)
          => (/\ teardowns' = 1
              /\ Len(emitted') = 1
              /\ emitted'[1].flag \in {"HostLeave", "RoomDeletedByHost"})
       /\ (Handles("fire") /\ Head(queue).tid \notin graceTimers)
          => (/\ teardowns' = teardowns
              /\ emitted' = <<>>
              /\ roomAlive' = roomAlive
              /\ ledger' = ledger)]_vars

\* C4 witness: the room was torn down once by the timer that replaced an
\* earlier one (two host disconnects before the expiry).
C4_Witness ==
    /\ teardowns = 1
    /\ lastHandled = FireEvent(2)
    /\ Len(emitted) = 1

\* C5: a teardown happens only on a fire event of the armed timer with the
\* host in DisconnectedGrace; a fire event handled while the host is Active
\* changes nothing, and a fire event of the armed timer ends the grace window.
C5_ReconnectTimerRace ==
    [][/\ (teardowns' > teardowns \/ (roomAlive /\ ~roomAlive'))
          => (/\ Handles("fire")
              /\ Head(queue).tid \in graceTimers
              /\ ledger[createdBy] = "DisconnectedGrace")
       /\ (Handles("fire") /\ ledger[createdBy] = "Active")
          => (/\ roomAlive' = roomAlive
              /\ ledger' = ledger
              /\ log' = log
              /\ emitted' = <<>>)
       /\ (Handles("fire") /\ Head(queue).tid \in graceTimers)
          => (/\ teardowns' = teardowns + 1
              /\ ~roomAlive' \/ ledger'[createdBy] = "Left")]_vars

\* C5 witness: the reconnect was ordered first; the fire event of the
\* cancelled timer has been handled with the host Active and no teardown.
C5_Witness ==
    /\ lastHandled.kind = "fire"
    /\ ledger[createdBy] = "Active"
    /\ roomAlive
    /\ teardowns = 0
    /\ graceTimers = {}

\* C6: at most one grace timer is armed, and one is armed exactly while the
\* host is in DisconnectedGrace.
C6_OneGraceTimer ==
    /\ Cardinality(graceTimers) <= 1
    /\ graceTimers # {} <=> (roomAlive /\ ledger[createdBy] = "DisconnectedGrace")

\* C6 witness: a second host disconnect inside the window has been handled
\* and one timer, the new one, is armed.
C6_Witness ==
    /\ lastHandled = DisconnectEvent(createdBy)
    /\ ledger[createdBy] = "DisconnectedGrace"
    /\ graceTimers = {2}

\* C7: a grace timeout in a secure room deletes the room, sends
\* room:deleted-by-host to the remaining members, and leaves no log, no
\* ledger entry and no armed timer; a deleted room stays that way.
C7_SecureTimeoutDeletesRoom ==
    [][/\ (mode = "secure" /\ Handles("fire") /\ Head(queue).tid \in graceTimers)
          => (/\ ~roomAlive'
              /\ emitted' = <<Out("room:deleted-by-host", "RoomDeletedByHost",
                                  Remaining(createdBy))>>)
       /\ ~roomAlive'
          => (/\ log' = <<>>
              /\ graceTimers' = {}
              /\ \A u \in Users : ledger'[u] = "absent")]_vars

\* C7 witness: the secure room is gone and member b was sent
\* room:deleted-by-host.
C7_Witness ==
    /\ mode = "secure"
    /\ ~roomAlive
    /\ lastHandled.kind = "fire"
    /\ emitted = <<Out("room:deleted-by-host", "RoomDeletedByHost", {"b"})>>

\* C8: a grace timeout in a normal room emits one HostLeave message to the
\* remaining members; the room, the other members and the log (with the new
\* message) stay, and the host is Left.
C8_NormalTimeoutKeepsRoom ==
    [][(mode = "normal" /\ Handles("fire") /\ Head(queue).tid \in graceTimers)
       => (/\ emitted' = <<Out("message:new", "HostLeave", Remaining(createdBy))>>
           /\ log' = Append(log, "HostLeave")
           /\ roomAlive'
           /\ ledger' = [ledger EXCEPT ![createdBy] = "Left"])]_vars

\* C8 witness: the normal room lives on without its host, and member b was
\* sent the HostLeave message.
C8_Witness ==
    /\ mode = "normal"
    /\ roomAlive
    /\ lastHandled.kind = "fire"
    /\ ledger[createdBy] = "Left"
    /\ ledger["b"] = "Active"
    /\ emitted = <<Out("message:new", "HostLeave", {"b"})>>

\* The rule table of the classifier, written out row by row.
RuleTable(m, k) ==
    IF k = "kick" THEN <<"yes", TRUE, "UserKick">>
    ELSE IF m = "normal" THEN <<"yes", TRUE, "UserLeave">>
    ELSE IF k = "manual" THEN <<"yes", TRUE, "UserLeave">>
    ELSE IF k = "automatic" THEN <<"no", FALSE, "none">>
    ELSE IF k = "disconnect" THEN <<"yes", FALSE, "none">>
    ELSE <<"grace-start", FALSE, "none">>

C10_MemberDisconnectNoGrace ==
    [][/\ (/\ Handles("disconnect")
           /\ Head(queue).user # createdBy
           /\ roomAlive
           /\ ledger[Head(queue).user] = "Active")
          => (/\ ledger' = [ledger EXCEPT ![Head(queue).user] = "Left"]
              /\ graceTimers' = graceTimers
              /\ mode = "secure" => (emitted' = <<>> /\ log' = log))
       /\ \A u \in Users \ {createdBy} : ledger'[u] # "DisconnectedGrace"]_vars

\* C10 witness: member b of a secure room went from Active to Left by a
\* disconnect: the log holds its join and no leave.
C10_Witness ==
    /\ mode = "secure"
    /\ lastHandled = DisconnectEvent("b")
    /\ ledger["b"] = "Left"
    /\ log = <<"UserJoin">>
    /\ graceTimers = {}
    /\ emitted = <<>>

\* C11: handling a leave or a disconnect of a member that is Left or unknown
\* to the ledger is a no-op: ledger, log, room and timers are unchanged and
\* nothing is emitted (no notification, no error).
C11_DuplicateLeaveIsNoOp ==
    [][(/\ Handles("leave") \/ Handles("disconnect")
        /\ ledger[Head(queue).user] \in {"absent", "Left"})
       => (/\ ledger' = ledger
           /\ log' = log
           /\ roomAlive' = roomAlive
           /\ graceTimers' = graceTimers
           /\ emitted' = <<>>)]_vars

\* C11 witness: member b left by hand and was announced once; a second leave
\* of b has been handled and emitted nothing.
C11_Witness ==
    /\ roomAlive
    /\ lastHandled = LeaveEvent("b", TRUE, "manual_leave")
    /\ ledger["b"] = "Left"
    /\ log = <<"UserJoin", "UserLeave">>
    /\ emitted = <<>>

\* C12: a kick issued by a member other than createdBy is answered with
\* Unauthorized to the issuer only; ledger and log are unchanged, so the
\* target keeps its state, and no UserKick goes out.
C12_NonHostKickUnauthorized ==
    [][(/\ Handles("kick")
        /\ roomAlive
        /\ Head(queue).user # createdBy)
       => (/\ emitted' = <<Out("error", "Unauthorized", {Head(queue).user})>>
           /\ ledger' = ledger
           /\ log' = log
           /\ Flagged(emitted', "UserKick") = {})]_vars

\* C12 witness: Active member b asked to kick the host and was refused; the
\* host is still Active.
C12_Witness ==
    /\ roomAlive
    /\ lastHandled = KickEvent("b", createdBy)
    /\ ledger["b"] = "Active"
    /\ ledger[createdBy] = "Active"
    /\ emitted = <<Out("error", "Unauthorized", {"b"})>>

(***************************************************************************)
(* Message Store merge: the room:join acknowledgement of ChatWindow.jsx.   *)
(***************************************************************************)
\* What the merge reads of a message.  Timestamps are the instants that
\* toISOString writes and new Date reads back, in milliseconds.
MsgIds == {"m1", "m2", "m3"}
Timestamps == {1, 2}
\* The texts in play: both users wrote "hi", the host also wrote "yo".
Texts ==
    {[content |-> "hi", sender |-> "a"], [content |-> "hi", sender |-> "b"],
     [content |-> "yo", sender |-> "a"]}
Msgs ==
    {[id |-> i, timestamp |-> t, content |-> x.content, sender |-> x.sender] :
        i \in MsgIds, t \in Timestamps, x \in Texts}

\* Sequences over S of length at most n.
SeqsUpTo(S, n) == UNION {[1..k -> S] : k \in 0..n}

\* The cache is whatever message:new appended and earlier joins saved; no
\* handler of the window checks it for duplicates.
StoredLists == SeqsUpTo(Msgs, MaxStored)

\* The server assigns ids, so no two entries of its log share one.
ServerLogs ==
    {l \in SeqsUpTo(Msgs, MaxServer) :
        \A i, j \in 1..Len(l) : l[i].id = l[j].id => i = j}

\* Variant of the find predicate: the id is the only key.
SameMessageByIdOnly(stored, serverMsg) == stored.id = serverMsg.id

\* Variant of the find predicate: nothing is ever found.
SameMessageNever(stored, serverMsg) == FALSE

\* The predicate handed to storedMessages.find.
SameMessage(stored, serverMsg) ==
    \/ stored.id = serverMsg.id
    \/ stored.timestamp = serverMsg.timestamp /\ stored.content = serverMsg.content

\* exists: storedMessages.find(...) found an entry.
Exists(stored, serverMsg) ==
    \E i \in 1..Len(stored) : SameMessage(stored[i], serverMsg)

\* The server messages that forEach pushes, in the order of the server list.
Pushed(stored, server) == SelectSeq(server, LAMBDA m : ~Exists(stored, m))

\* Variant: the compared entry goes in front of the entries of its timestamp.
InsertBeforeEquals(sorted, m) ==
    LET k == Cardinality({i \in 1..Len(sorted) : sorted[i].timestamp < m.timestamp})
    IN  SubSeq(sorted, 1, k) \o <<m>> \o SubSeq(sorted, k + 1, Len(sorted))

\* One step of the stable sort: m goes behind every entry that is not later.
InsertByTimestamp(sorted, m) ==
    LET k == Cardinality({i \in 1..Len(sorted) : sorted[i].timestamp <= m.timestamp})
    IN  SubSeq(sorted, 1, k) \o <<m>> \o SubSeq(sorted, k + 1, Len(sorted))

\* mergedMessages.sort((a, b) => new Date(a.timestamp) - new Date(b.timestamp)):
\* Array.prototype.sort is stable.
RECURSIVE SortByTimestamp(_)
SortByTimestamp(list) ==
    IF list = <<>> THEN <<>>
    ELSE InsertByTimestamp(SortByTimestamp(SubSeq(list, 1, Len(list) - 1)),
                           list[Len(list)])

\* Variant: the sort is left out.
MergedMessagesUnsorted(stored, server) == stored \o Pushed(stored, server)

\* mergedMessages of the success branch.
MergedMessages(stored, server) == SortByTimestamp(stored \o Pushed(stored, server))

\* The rest of the module keeps its values while the merge is examined.
RoomIdle ==
    /\ roomAlive = TRUE
    /\ ledger = [u \in Users |-> IF u = createdBy THEN "Active" ELSE "absent"]
    /\ graceTimers = {}
    /\ queue = <<>>
    /\ log = <<>>
    /\ emitted = <<>>
    /\ lastHandled = NoEvent
    /\ teardowns = 0

\* A normal-mode window about to join, with any cache and any server log.
InitMerge ==
    /\ mode = "normal"
    /\ RoomIdle
    /\ storedMessages \in StoredLists
    /\ roomMessages \in ServerLogs
    /\ messages = <<>>
    /\ ViewIdle
    /\ BurnIdle
    /\ SessionIdle

\* The acknowledgement reports success: merge, display, save.
RoomJoinSuccess ==
    /\ messages' = MergedMessages(storedMessages, roomMessages)
    /\ storedMessages' = messages'
    /\ UNCHANGED <<roomMessages, vars, viewVars, burnVars, sessionVars>>

\* The acknowledgement reports failure: the cache alone is displayed.
RoomJoinFailure ==
    /\ messages' = storedMessages
    /\ UNCHANGED <<storedMessages, roomMessages, vars, viewVars, burnVars, sessionVars>>

NextMerge == RoomJoinSuccess \/ RoomJoinFailure

SpecMerge == InitMerge /\ [][NextMerge]_<<vars, clientVars>>

(***************************************************************************)
(* Properties of the merge.                                                *)
(***************************************************************************)
\* The second de-duplication key of the data model.
SameTriple(x, y) ==
    x.timestamp = y.timestamp /\ x.content = y.content /\ x.sender = y.sender

Entries(list) == {list[i] : i \in 1..Len(list)}

TimestampAscending(list) ==
    \A i, j \in 1..Len(list) : i < j => list[i].timestamp <= list[j].timestamp

\* The entries of list that carry timestamp t, in their order.
AtTimestamp(list, t) == SelectSeq(list, LAMBDA m : m.timestamp = t)

\* C13: for every cache and server log, the merged list has no two entries
\* with the same id and no two with the same (timestamp, content, sender).
C13_MergeHasNoDuplicates ==
    LET merged == MergedMessages(storedMessages, roomMessages) IN
    \A i, j \in 1..Len(merged) :
        i # j => /\ merged[i].id # merged[j].id
                 /\ ~SameTriple(merged[i], merged[j])

\* C14: merging the server log into the result of the merge changes nothing:
\* merge(merge(A,B), B) = merge(A,B), A the cache and B the server log.
C14_MergeIdempotent ==
    LET merged == MergedMessages(storedMessages, roomMessages) IN
    MergedMessages(merged, roomMessages) = merged

\* C14 witness: a join has merged a log of which one entry was new to the
\* cache and one was not; the saved result merges with that log to itself.
C14_Witness ==
    /\ messages = storedMessages
    /\ Len(roomMessages) = 2
    /\ Len(messages) = 2
    /\ roomMessages[1] \notin Entries(messages)
    /\ roomMessages[2] \in Entries(messages)
    /\ messages[1] \notin Entries(roomMessages)
    /\ MergedMessages(storedMessages, roomMessages) = messages

\* C15 as stated: merge(A,B) and merge(B,A) are the same list.
C15_MergeCommutative ==
    MergedMessages(storedMessages, roomMessages)
        = MergedMessages(roomMessages, storedMessages)

\* An entry of one list is found in the other only as itself.
FoundOnlyAsItself(A, B) ==
    \A i \in 1..Len(A), j \in 1..Len(B) : SameMessage(A[i], B[j]) => A[i] = B[j]

\* No entry repeated and no two entries of one timestamp, in A and B together.
OneEntryPerTimestamp(A, B) ==
    /\ \A i, j \in 1..Len(A) : A[i].timestamp = A[j].timestamp => i = j
    /\ \A i, j \in 1..Len(B) : B[i].timestamp = B[j].timestamp => i = j
    /\ \A i \in 1..Len(A), j \in 1..Len(B) :
          A[i].timestamp = B[j].timestamp => A[i] = B[j]

\* Every entry of M is in N, or the find predicate matches it with one of N.
CoveredBy(M, N) ==
    \A i \in 1..Len(M) : \E j \in 1..Len(N) : M[i] = N[j] \/ SameMessage(M[i], N[j])

\* C15, amended: merge(A,B) and merge(B,A) hold the same messages up to the
\* find predicate (each entry of one is an entry of the other or is matched
\* with one by id or by timestamp and content), both in ascending timestamp
\* order; they are the same list when no entry is matched with a different
\* one and no two different entries share a timestamp.
C15_MergeCommutativeUpToMatches ==
    LET A == storedMessages
        B == roomMessages
        AB == MergedMessages(A, B)
        BA == MergedMessages(B, A)
    IN  /\ CoveredBy(AB, BA)
        /\ CoveredBy(BA, AB)
        /\ TimestampAscending(AB)
        /\ TimestampAscending(BA)
        /\ FoundOnlyAsItself(A, B) /\ OneEntryPerTimestamp(A, B) => AB = BA

\* C15 witness: cache and log share a message, the log has one more, with
\* another timestamp, and the join displayed both.
C15_Witness ==
    /\ Len(roomMessages) = 2
    /\ messages = storedMessages
    /\ messages = MergedMessages(roomMessages, storedMessages)
    /\ messages = <<roomMessages[2], roomMessages[1]>>
    /\ roomMessages[1].timestamp > roomMessages[2].timestamp
    /\ FoundOnlyAsItself(storedMessages, roomMessages)

\* C16: the merged list is in ascending timestamp order, and the entries of
\* one timestamp are the cached ones in cache order followed by the pushed
\* server ones in server order.
C16_SortedKeepingInsertionOrder ==
    LET merged == MergedMessages(storedMessages, roomMessages) IN
    /\ TimestampAscending(merged)
    /\ \A t \in Timestamps :
          AtTimestamp(merged, t)
              = AtTimestamp(storedMessages, t)
                    \o AtTimestamp(Pushed(storedMessages, roomMessages), t)

\* C16 witness: three messages of one timestamp are displayed, the cached one
\* first, then the two server ones in the order of the server log, although
\* the second server entry has the smaller id.
C16_Witness ==
    /\ Len(messages) = 3
    /\ Len(roomMessages) = 2
    /\ messages[1] \notin Entries(roomMessages)
    /\ messages[2] = roomMessages[1]
    /\ messages[3] = roomMessages[2]
    /\ messages[1].timestamp = messages[3].timestamp
    /\ messages[2].id = "m3"
    /\ messages[3].id = "m2"

\* C17: a cached copy under a temporary id (an id the server log does not
\* hold) and the server's copy of the same (timestamp, content, sender) under
\* its own id end as exactly one entry of the merged list: the cached one.
C17_OptimisticCopyMergedOnce ==
    LET merged == MergedMessages(storedMessages, roomMessages) IN
    \A i \in 1..Len(storedMessages), j \in 1..Len(roomMessages) :
        (/\ SameTriple(storedMessages[i], roomMessages[j])
         /\ \A k \in 1..Len(roomMessages) : roomMessages[k].id # storedMessages[i].id
         /\ \A k \in 1..Len(storedMessages) :
               SameTriple(storedMessages[k], storedMessages[i]) => k = i)
        => {k \in 1..Len(merged) : SameTriple(merged[k], storedMessages[i])}
               = {k \in 1..Len(merged) : merged[k] = storedMessages[i]}
           /\ Cardinality({k \in 1..Len(merged) : SameTriple(merged[k], storedMessages[i])}) = 1

\* C17 witness: the cache held "hi" under m3, the log holds it under m1 and
\* a later message m2; the join displays m3 and m2 only.
C17_Witness ==
    /\ Len(roomMessages) = 2
    /\ Len(messages) = 2
    /\ messages = storedMessages
    /\ messages[1].id = "m3"
    /\ roomMessages[1].id = "m1"
    /\ SameTriple(messages[1], roomMessages[1])
    /\ messages[2] = roomMessages[2]
    /\ messages[2].timestamp > messages[1].timestamp

(***************************************************************************)
(* Ephemeral Content Gate: view-once files in ChatWindow.jsx.              *)
(***************************************************************************)
\* The attachments of the room: a file, a file whose message has no id, a
\* voice message and a video message.
Attachments ==
    {[id |-> "f1", type |-> "file", fileUrl |-> "/uploads/1"],
     [id |-> "", type |-> "file", fileUrl |-> "/uploads/2"],
     [id |-> "a1", type |-> "audio", fileUrl |-> "/uploads/3"],
     [id |-> "v1", type |-> "video", fileUrl |-> "/uploads/4"]}

Files == {m \in Attachments : m.type = "file"}
Media == {m \in Attachments : m.type \in {"audio", "video"}}

\* fileId: message.id || message.fileUrl.
FileId(message) == IF message.id # "" THEN message.id ELSE message.fileUrl

\* Variant: every attachment of a secure room is gated.
GatedWhateverType(md, message) == md = "secure"

\* The handler's test mode === 'secure' && message.type === 'file'.
Gated(md, message) == md = "secure" /\ message.type = "file"

\* isViewed of the file button, which is disabled when it holds.
IsViewed(v, message) == mode = "secure" /\ FileId(message) \in viewedFiles[v]

\* What handleOpenFilePreview answers for a window whose set is viewed.
OpenVerdict(viewed, md, message) ==
    IF Gated(md, message) /\ FileId(message) \in viewed THEN "AlreadyViewed"
    ELSE "Allowed"

\* Variant: the set is replaced by the id of the file opened last.
ViewedAfterOpenLatestOnly(viewed, md, message) ==
    IF Gated(md, message) /\ FileId(message) \notin viewed
    THEN {FileId(message)}
    ELSE viewed

\* The window's set after handleOpenFilePreview.
ViewedAfterOpen(viewed, md, message) ==
    IF Gated(md, message) /\ FileId(message) \notin viewed
    THEN viewed \cup {FileId(message)}
    ELSE viewed

\* History of the attempt: who, what, the answer, and how often in a row.
Attempt(v, message, r) ==
    lastOpen' =
        [viewer |-> v, file |-> FileId(message), result |-> r,
         nth |-> IF /\ lastOpen.viewer = v
                    /\ lastOpen.file = FileId(message)
                    /\ lastOpen.result = r
                 THEN IF lastOpen.nth < MaxRepeat THEN lastOpen.nth + 1 ELSE MaxRepeat
                 ELSE 1]

handleOpenFilePreview(v, message) ==
    LET verdict == OpenVerdict(viewedFiles[v], mode, message) IN
    /\ Attempt(v, message, verdict)
    /\ IF verdict = "AlreadyViewed"
       THEN UNCHANGED <<viewedFiles, filePreviewModal, openedBefore>>
       ELSE /\ viewedFiles' =
                  [viewedFiles EXCEPT ![v] = ViewedAfterOpen(@, mode, message)]
            /\ filePreviewModal' = [filePreviewModal EXCEPT ![v] = message]
            /\ openedBefore' =
                  IF Gated(mode, message)
                  THEN openedBefore \cup {<<v, FileId(message)>>}
                  ELSE openedBefore

\* A click on the button of a file message; a disabled button does nothing.
ClickFile(v, message) ==
    /\ message \in Files
    /\ IF IsViewed(v, message)
       THEN /\ Attempt(v, message, "AlreadyViewed")
            /\ UNCHANGED <<viewedFiles, filePreviewModal, openedBefore>>
       ELSE handleOpenFilePreview(v, message)
    /\ UNCHANGED <<vars, mergeVars, burnVars, sessionVars>>

\* The inline <audio controls> / <video controls> player of a message.
PlayInline(v, message) ==
    /\ message \in Media
    /\ Attempt(v, message, "Allowed")
    /\ UNCHANGED <<viewedFiles, filePreviewModal, openedBefore>>
    /\ UNCHANGED <<vars, mergeVars, burnVars, sessionVars>>

\* handleDownloadFile: the Download button of a voice or video message, or
\* of the preview that is open.
DownloadFile(v, message) ==
    /\ message \in Media \/ filePreviewModal[v] = message
    /\ Attempt(v, message, "Allowed")
    /\ UNCHANGED <<viewedFiles, filePreviewModal, openedBefore>>
    /\ UNCHANGED <<vars, mergeVars, burnVars, sessionVars>>

\* The preview's close button: setFilePreviewModal(null).
ClosePreview(v) ==
    /\ filePreviewModal[v] # NoPreview
    /\ filePreviewModal' = [filePreviewModal EXCEPT ![v] = NoPreview]
    /\ UNCHANGED <<viewedFiles, openedBefore, lastOpen>>
    /\ UNCHANGED <<vars, mergeVars, burnVars, sessionVars>>

\* The window is mounted anew (page reload, return to the room): its state
\* starts from the useState initial values.  A secure-mode window then asks
\* messages:get for the room's messages, the attachments among them.
Remount(v) ==
    /\ viewedFiles' = [viewedFiles EXCEPT ![v] = {}]
    /\ filePreviewModal' = [filePreviewModal EXCEPT ![v] = NoPreview]
    /\ UNCHANGED <<openedBefore, lastOpen>>
    /\ UNCHANGED <<vars, mergeVars, burnVars, sessionVars>>

InitViewOnce ==
    /\ mode \in Modes
    /\ RoomIdle
    /\ MergeIdle
    /\ ViewIdle
    /\ BurnIdle
    /\ SessionIdle

NextViewOnce ==
    \/ \E v \in Users, m \in Attachments : ClickFile(v, m)
    \/ \E v \in Users, m \in Attachments : PlayInline(v, m)
    \/ \E v \in Users, m \in Attachments : DownloadFile(v, m)
    \/ \E v \in Users : ClosePreview(v)
    \/ \E v \in Users : Remount(v)

SpecViewOnce == InitViewOnce /\ [][NextViewOnce]_<<vars, clientVars>>

\* C18: in a secure room no open shows a file to a viewer to whom the gate
\* has shown it before (every later open is AlreadyViewed and opens nothing),
\* and a (file, viewer) pair not shown before is open to its first attempt,
\* whatever other viewers have opened.
C18_FileOpensOncePerViewer ==
    [][\A v \in Users, m \in Files :
          mode = "secure"
          => /\ <<v, FileId(m)>> \notin openedBefore
                => OpenVerdict(viewedFiles[v], mode, m) = "Allowed" /\ ~IsViewed(v, m)
             /\ (filePreviewModal'[v] = m /\ filePreviewModal[v] # m)
                => <<v, FileId(m)>> \notin openedBefore]_<<vars, clientVars>>

\* C19: voice and video messages are never gated: no window's viewed set
\* holds one, the handler would answer Allowed for it and record nothing,
\* and every attempt on one was answered Allowed.
C19_MediaNeverGated ==
    \A v \in Users, m \in Media :
        /\ FileId(m) \notin viewedFiles[v]
        /\ <<v, FileId(m)>> \notin openedBefore
        /\ OpenVerdict(viewedFiles[v], mode, m) = "Allowed"
        /\ ViewedAfterOpen(viewedFiles[v], mode, m) = viewedFiles[v]
        /\ (lastOpen.viewer = v /\ lastOpen.file = FileId(m))
           => lastOpen.result = "Allowed"

\* C19 witness: in a secure room b, already locked out of file f1, has played
\* the voice message a1 MaxRepeat times in a row, each time Allowed.
C19_Witness ==
    /\ mode = "secure"
    /\ "f1" \in viewedFiles["b"]
    /\ lastOpen = [viewer |-> "b", file |-> "a1", result |-> "Allowed", nth |-> MaxRepeat]

(***************************************************************************)
(* Burn after reading: the departures of one ChatWindow and its cache.     *)
(***************************************************************************)
\* The messages that arrive while the window is open.
Notes ==
    {[id |-> "m1", timestamp |-> 1, content |-> "hi", sender |-> "a"],
     [id |-> "m2", timestamp |-> 2, content |-> "yo", sender |-> "a"]}

\* A value that setItem wrote for a room whose expiry is e.
StoredUntil(list, e) == [present |-> TRUE, messages |-> list, roomExpiry |-> e]

\* A value that setItem wrote: roomExpiry is room?.expiresAt || null.
Stored(list) == StoredUntil(list, expiresAt)

\* A message that an earlier stay in another room left in that room's cache.
OtherRoomsNote == [id |-> "m9", timestamp |-> 1, content |-> "hi", sender |-> "b"]

\* key.includes(roomId)
Includes(key, roomId) ==
    \E i \in 1..Len(key) :
        /\ i + Len(roomId) <= Len(key) + 1
        /\ SubSeq(key, i, i + Len(roomId) - 1) = roomId

\* Variant: the save does not ask for the mode.
saveMessagesToStorageInAnyMode(md, store, roomId, list) ==
    [store EXCEPT ![getStorageKey(roomId)] = Stored(list)]

\* saveMessagesToStorage: normal mode only.
saveMessagesToStorage(md, store, roomId, list) ==
    IF md # "normal" THEN store
    ELSE [store EXCEPT ![getStorageKey(roomId)] = Stored(list)]

\* Variant: the purge does not ask for the mode.
PurgeRunsInAnyMode(md, burn, roomId) == ~(~burn \/ roomId = <<>>)

\* permanentlyDeleteMessages gets past its first line.
PurgeRuns(md, burn, roomId) == ~(~burn \/ roomId = <<>> \/ md = "secure")

\* Variant: the purge removes only `messages_${roomId}`, the key of its
\* second step, and does not go through the other keys.
StorageAfterPurgeOfLegacyKeyOnly(md, store, roomId) ==
    [k \in DOMAIN store |->
        IF md = "normal" /\ k = LegacyKey(roomId) THEN NoItem ELSE store[k]]

\* localStorage after steps 2 and 3 of permanentlyDeleteMessages.
StorageAfterPurge(md, store, roomId) ==
    [k \in DOMAIN store |->
        IF (md = "normal" /\ k = LegacyKey(roomId)) \/ Includes(k, roomId)
        THEN NoItem
        ELSE store[k]]

permanentlyDeleteMessages(roomId) ==
    IF PurgeRuns(mode, burnAfterReading, roomId)
    THEN /\ messages' = <<>>
         /\ localStorage' = StorageAfterPurge(mode, localStorage, roomId)
    ELSE UNCHANGED <<messages, localStorage>>

\* The test in front of each call: mode !== 'secure' && room.burnAfterReading.
BurnsOnDeparture(md, burn) == md # "secure" /\ burn

Departure(reason) ==
    /\ IF BurnsOnDeparture(mode, burnAfterReading)
       THEN permanentlyDeleteMessages(RoomId)
       ELSE UNCHANGED <<messages, localStorage>>
    /\ lastEvent' = reason

Departures == {"manual_leave", "component_unmount", "page_unload"}

\* The user of this window.
thisUser == "b"

\* message:new: append, and save in normal mode.
MessageNew(message) ==
    /\ mounted
    /\ Len(messages) < MaxShown
    /\ messages' = Append(messages, message)
    /\ localStorage' = saveMessagesToStorage(mode, localStorage, RoomId, messages')
    /\ lastEvent' = "message:new"
    /\ UNCHANGED <<mounted, burnAfterReading, storedMessages, roomMessages, leaveVars>>
    /\ UNCHANGED <<vars, outsideBurn>>

\* handleLeaveRoom: the Leave Room button emits room:leave and waits for the
\* acknowledgement.
handleLeaveRoom ==
    /\ mounted
    /\ Len(sent) < MaxSent
    /\ pendingAcks < MaxSent
    /\ sent' = sent \o HandleLeaveRoomEmits(thisUser)
    /\ pendingAcks' = pendingAcks + 1
    /\ lastEvent' = "leave_click"
    /\ UNCHANGED <<unloading, joinPending, mounted, burnAfterReading, localStorage, mergeVars>>
    /\ UNCHANGED <<vars, outsideBurn>>

\* window.location.reload() fires beforeunload: a window still mounted has
\* its handler registered and the handler emits.
ReloadEmits(md, isMounted, u) ==
    IF isMounted THEN BeforeUnloadEmits(md, u) ELSE <<>>

\* handleLeaveRoom, the acknowledgement reporting success: the purge, then
\* window.location.reload().  The page stays until the reload replaces it.
LeaveRoomAck ==
    /\ pendingAcks > 0
    /\ Departure("manual_leave")
    /\ sent' = sent \o ReloadEmits(mode, mounted, thisUser)
    /\ unloading' = TRUE
    /\ pendingAcks' = pendingAcks - 1
    /\ UNCHANGED <<joinPending, mounted, burnAfterReading, storedMessages, roomMessages>>
    /\ UNCHANGED <<vars, outsideBurn>>

\* handleLeaveRoom, the acknowledgement reporting failure: console.error.
LeaveRoomAckFailure ==
    /\ pendingAcks > 0
    /\ pendingAcks' = pendingAcks - 1
    /\ lastEvent' = "leave_failed"
    /\ UNCHANGED <<sent, unloading, joinPending, mounted, burnAfterReading, localStorage, mergeVars>>
    /\ UNCHANGED <<vars, outsideBurn>>

\* The cleanup of the unmount effect, which also runs when room?.id or mode
\* changes.  In secure mode it does nothing.
UnmountCleanup ==
    /\ mounted
    /\ IF mode = "secure"
       THEN UNCHANGED <<messages, localStorage>> /\ lastEvent' = "component_unmount"
       ELSE Departure("component_unmount")
    /\ sent' = sent \o UnmountEmits(mode, thisUser)
    /\ mounted' = FALSE
    /\ UNCHANGED <<pendingAcks, unloading, joinPending, burnAfterReading, storedMessages, roomMessages>>
    /\ UNCHANGED <<vars, outsideBurn>>

\* beforeunload, as the tab is closed or left.  In secure mode no handler is
\* registered.  The component stays mounted and its socket listeners stay
\* registered until the page is gone.
handleBeforeUnload ==
    /\ mounted
    /\ ~unloading
    /\ IF mode = "secure"
       THEN UNCHANGED <<messages, localStorage>> /\ lastEvent' = "page_unload"
       ELSE Departure("page_unload")
    /\ sent' = sent \o BeforeUnloadEmits(mode, thisUser)
    /\ unloading' = TRUE
    /\ UNCHANGED <<pendingAcks, joinPending, mounted, burnAfterReading, storedMessages, roomMessages>>
    /\ UNCHANGED <<vars, outsideBurn>>

\* The page is gone, and with it the component and the callbacks still
\* waiting.
PageGone ==
    /\ unloading
    /\ unloading' = FALSE
    /\ mounted' = FALSE
    /\ pendingAcks' = 0
    /\ lastEvent' = "page_gone"
    /\ UNCHANGED <<sent, joinPending, burnAfterReading, localStorage, mergeVars>>
    /\ UNCHANGED <<vars, outsideBurn>>

\* The window is mounted again: useState([]).
Mount ==
    /\ ~mounted
    /\ ~unloading
    /\ mounted' = TRUE
    /\ messages' = <<>>
    /\ sent' = <<>>
    /\ lastEvent' = "mount"
    /\ UNCHANGED <<pendingAcks, unloading, joinPending, burnAfterReading, localStorage, storedMessages, roomMessages>>
    /\ UNCHANGED <<vars, outsideBurn>>

\* A mounted window with nothing displayed.  The browser may hold what other
\* rooms and other code left in localStorage; this room has no cache yet.
InitBurn ==
    /\ mode \in Modes
    /\ RoomIdle
    /\ storedMessages = <<>>
    /\ roomMessages = <<>>
    /\ messages = <<>>
    /\ ViewIdle
    /\ mounted = TRUE
    /\ burnAfterReading \in BOOLEAN
    /\ \E other \in {NoItem, Stored(<<OtherRoomsNote>>)},
          longer \in {NoItem, Stored(<<OtherRoomsNote>>)},
          legacy \in {NoItem, Stored(<<>>)} :
          localStorage =
              [k \in StorageKeys |->
                  IF k = getStorageKey(OtherRoomId) THEN other
                  ELSE IF k = getStorageKey(LongerRoomId) THEN longer
                  ELSE IF k = LegacyKey(RoomId) THEN legacy
                  ELSE NoItem]
    /\ lastEvent = "none"
    /\ SessionIdle

NextBurn ==
    \/ \E m \in Notes : MessageNew(m)
    \/ handleLeaveRoom
    \/ LeaveRoomAck
    \/ LeaveRoomAckFailure
    \/ UnmountCleanup
    \/ handleBeforeUnload
    \/ PageGone
    \/ Mount

SpecBurn == InitBurn /\ [][NextBurn]_<<vars, clientVars>>

\* C20: in a secure room with burnAfterReading set the purge never runs:
\* permanentlyDeleteMessages stops at its first line, and no manual leave,
\* unmount or page unload changes the displayed list or localStorage.
C20_SecureRoomNeverPurged ==
    [][(mode = "secure" /\ burnAfterReading)
       => /\ ~PurgeRuns(mode, burnAfterReading, RoomId)
          /\ lastEvent' \in Departures
             => messages' = messages /\ localStorage' = localStorage]_<<vars, clientVars>>

\* C20 witness: a secure room with the flag set; after two messages and an
\* unmount the window's list still has both messages and localStorage still
\* has the other room's entry.
C20_Witness ==
    /\ mode = "secure"
    /\ burnAfterReading
    /\ ~mounted
    /\ lastEvent = "component_unmount"
    /\ Len(messages) = 2
    /\ localStorage[getStorageKey(OtherRoomId)].present


\* C21: in a normal room with burnAfterReading set, every departure (the
\* acknowledged manual leave, the unmount cleanup, the page unload) leaves
\* the displayed list empty and this room's cache entry absent.
C21_DepartureEmptiesListAndCache ==
    [][(mode = "normal" /\ burnAfterReading /\ lastEvent' \in Departures)
       => /\ messages' = <<>>
          /\ ~localStorage'[getStorageKey(RoomId)].present]_<<vars, clientVars>>

\* C21 witness: a normal room with the flag set and the page unloaded:
\* nothing is displayed and the room has no cache entry.
C21_Witness ==
    /\ mode = "normal"
    /\ burnAfterReading
    /\ lastEvent = "page_unload"
    /\ unloading
    /\ messages = <<>>
    /\ ~localStorage[getStorageKey(RoomId)].present

\* C22: a purge of this room leaves the cache of every other room as it was.
C22_PurgeLeavesOtherRoomsAlone ==
    [][lastEvent' \in Departures
       => \A r \in RoomIds \ {RoomId} :
             localStorage'[getStorageKey(r)] = localStorage[getStorageKey(r)]]_<<vars, clientVars>>

\* The events a step added to sent.
NewlySent == SubSeq(sent', Len(sent) + 1, Len(sent'))

\* C27: a secure window emits no room:leave at an unmount (or a change of
\* room id, which runs the same cleanup) or a page unload, and nothing but
\* the manual leave of the button at any step; what a normal window emits
\* at an unmount or unload has isManualLeave = false and the reason of that
\* departure, and no other step emits an event with those reasons.
C27_NoAutomaticLeaveInSecureMode ==
    [][IF lastEvent' \in AutomaticReasons
       THEN /\ mode = "secure" => sent' = sent
            /\ mode = "normal"
               => sent' = Append(sent, LeaveEvent(thisUser, FALSE, lastEvent'))
       ELSE lastEvent' # "mount"
            => /\ Len(sent') >= Len(sent)
               /\ \A i \in 1..Len(NewlySent) :
                     \/ NewlySent[i] = LeaveEvent(thisUser, TRUE, "manual_leave")
                     \/ /\ mode = "normal"
                        /\ NewlySent[i] = LeaveEvent(thisUser, FALSE, "page_unload")]_<<vars, clientVars>>

\* C27 witness: the page of a secure window has unloaded and the window
\* has emitted nothing.
C27_Witness ==
    /\ mode = "secure"
    /\ lastEvent = "page_unload"
    /\ unloading
    /\ Len(messages) = 0
    /\ sent = <<>>
    /\ pendingAcks = 0

\* C28: in a normal room one click on Leave Room and its acknowledgement
\* leave exactly one room:leave emitted: the step of the acknowledgement,
\* reload included, adds nothing to the one event of the click.
C28_OneClickOneLeave ==
    [][(mode = "normal"
        /\ lastEvent' = "manual_leave"
        /\ sent = HandleLeaveRoomEmits(thisUser))
       => sent' = HandleLeaveRoomEmits(thisUser)]_<<vars, clientVars>>

(***************************************************************************)
(* Membership events: user:joined, user:left, room:online-users.           *)
(***************************************************************************)
\* "Within 5 seconds" of the duplicate test.
DuplicateWindow == 5000

NoticeKinds == {"user:joined", "user:left"}

\* `${username} joined the room`, `${username} left the room`.
NoticeContent(kind, username) ==
    <<username, IF kind = "user:joined" THEN " joined the room" ELSE " left the room">>

\* joinMessage, leaveMessage: what the client makes up in normal mode.
ClientNotice(kind, u, t) ==
    [id |-> <<IF kind = "user:joined" THEN "join" ELSE "leave", u, t>>,
     type |-> "system",
     content |-> NoticeContent(kind, u),
     timestamp |-> t,
     username |-> "System"]

\* The system message the server sends as message:new for the same event.
ServerNotice(kind, u, t) ==
    [id |-> <<"server", u, t>>,
     type |-> "system",
     content |-> NoticeContent(kind, u),
     timestamp |-> t,
     username |-> "System"]

\* Variant: no notice counts as a duplicate.
IsDuplicateNever(prev, content, t) == FALSE

\* isDuplicate of both handlers.
IsDuplicate(prev, content, t) ==
    \E i \in 1..Len(prev) :
        /\ prev[i].type = "system"
        /\ prev[i].content = content
        /\ t - prev[i].timestamp < DuplicateWindow

\* Variant: the handlers make up a message in secure mode as well.
AfterNoticeInAnyMode(md, prev, kind, u, t) ==
    IF IsDuplicate(prev, NoticeContent(kind, u), t) THEN prev
    ELSE Append(prev, ClientNotice(kind, u, t))

\* The list after the user:joined or user:left handler.
AfterNotice(md, prev, kind, u, t) ==
    IF md = "secure" THEN prev
    ELSE IF IsDuplicate(prev, NoticeContent(kind, u), t) THEN prev
    ELSE Append(prev, ClientNotice(kind, u, t))

\* user:joined, user:left.
UserNotice(kind, u) ==
    /\ mounted
    /\ messages' = AfterNotice(mode, messages, kind, u, now)
    /\ Len(messages') <= MaxShown
    /\ lastEvent' = kind
    /\ UNCHANGED <<mounted, burnAfterReading, localStorage, storedMessages, roomMessages>>
    /\ UNCHANGED <<vars, typingVars, viewVars, leaveVars, eventVars, shotVars, uploadVars>>

\* Variant: the roster is taken in secure mode as well.
RosterAfterInAnyMode(md, roster, users) == users

\* room:online-users: setOnlineUsers in normal mode only.
RosterAfter(md, roster, users) == IF md = "normal" THEN users ELSE roster

RoomOnlineUsers(users) ==
    /\ mounted
    /\ onlineUsers' = RosterAfter(mode, onlineUsers, users)
    /\ lastEvent' = "room:online-users"
    /\ UNCHANGED <<now, mounted, burnAfterReading, localStorage, mergeVars>>
    /\ UNCHANGED <<vars, typingVars, viewVars, leaveVars, shotVars, uploadVars>>

\* Time passes.
Tick ==
    /\ now < MaxTicks * TickMs
    /\ now' = now + TickMs
    /\ UNCHANGED <<onlineUsers, mergeVars, burnVars>>
    /\ UNCHANGED <<vars, typingVars, viewVars, leaveVars, shotVars, uploadVars>>

InitEvents ==
    /\ mode \in Modes
    /\ RoomIdle
    /\ ClientIdle

NextEvents ==
    \/ \E kind \in NoticeKinds, u \in Users : UserNotice(kind, u)
    \/ \E kind \in NoticeKinds, u \in Users : MessageNew(ServerNotice(kind, u, now))
    \/ \E users \in SUBSET Users : RoomOnlineUsers(users)
    \/ Tick

SpecEvents == InitEvents /\ [][NextEvents]_<<vars, clientVars>>

\* C23: a secure window's online roster is empty, whatever room:online-users
\* events it has received; so the roster changes in normal mode only.
C23_RosterSuppressedInSecureMode ==
    mode = "secure" => onlineUsers = {}

\* C23 witness: a secure window has just handled room:online-users and its
\* roster is empty.
C23_Witness ==
    /\ mode = "secure"
    /\ lastEvent = "room:online-users"
    /\ onlineUsers = {}

\* C29: in a secure window a user:joined or user:left event leaves the
\* displayed list as it was, and every message of the list is one the server
\* sent as message:new.
C29_SecureClientMakesNoNotices ==
    [][mode = "secure"
       => /\ lastEvent' \in NoticeKinds => messages' = messages
          /\ \A i \in 1..Len(messages') : messages'[i].id[1] = "server"]_<<vars, clientVars>>

\* C29 witness: a secure window shows the server's notice that a joined and
\* nothing else after it handled user:joined.
C29_Witness ==
    /\ mode = "secure"
    /\ lastEvent = "user:joined"
    /\ messages = <<ServerNotice("user:joined", "a", 0)>>

\* C30: in a normal window two notices that the client made up for the same
\* user and the same kind of event are at least 5 s apart: of two
\* user:joined (or two user:left) events for one username that arrive within
\* 5 s of each other at most one adds its message.
C30_OneNoticePerWindow ==
    mode = "normal"
    => \A i, j \in 1..Len(messages) :
          (/\ i < j
           /\ messages[i].id[1] \in {"join", "leave"}
           /\ messages[j].id[1] \in {"join", "leave"}
           /\ messages[i].content = messages[j].content)
          => messages[j].timestamp - messages[i].timestamp >= DuplicateWindow

\* C30 witness: a normal window made up "a joined the room" at 0; 2.5 s
\* later, after a message of the server, it handled another user:joined and
\* added nothing.
C30_Witness ==
    /\ mode = "normal"
    /\ now = TickMs
    /\ lastEvent = "user:joined"
    /\ messages = <<ClientNotice("user:joined", "a", 0), ServerNotice("user:left", "a", TickMs)>>

(***************************************************************************)
(* ScreenshotDetection.jsx: the blocked-screenshot overlay and its timers. *)
(***************************************************************************)
\* The three setTimeout calls of triggerScreenshotAlert.
Delay(kind) ==
    CASE kind = "unblock" -> 1000
      [] kind = "remove" -> 3000
      [] kind = "fallback" -> 5000

\* The timers set by the n-th detection that got past the guard.
TimersOf(n) == {[kind |-> k, n |-> n] : k \in {"unblock", "remove", "fallback"}}

\* A timer comes due after the shorter timers of its own detection and
\* after the timers of earlier detections that are no longer than it.
Due(t) ==
    \A u \in timers :
        /\ ~(u.n = t.n /\ Delay(u.kind) < Delay(t.kind))
        /\ ~(u.n < t.n /\ Delay(u.kind) <= Delay(t.kind))

\* Variant: getElementById finds nothing, so nothing is removed.
RemoveByIdFindsNothing(elements) == elements

\* document.getElementById('screenshot-blocked-overlay')?.remove()
RemoveById(elements) == IF elements = <<>> THEN elements ELSE Tail(elements)

\* overlay.remove() of the element the n-th detection made.
RemoveElement(elements, n) ==
    LET Keep(e) == e # n IN SelectSeq(elements, Keep)

\* Variant: the guard does not look at isBlocking.
BlockedOutsideSecureModeOnly(md, blocking) == md # "secure"

\* The first line of triggerScreenshotAlert (socket, room and user are there).
Blocked(md, blocking) == md # "secure" \/ blocking

\* triggerScreenshotAlert(method), called by the key listeners of a mounted
\* component.
triggerScreenshotAlert ==
    /\ mounted
    /\ IF Blocked(mode, isBlocking)
       THEN /\ lastEvent' = "detection_ignored"
            /\ UNCHANGED shotVars
       ELSE /\ detected < MaxShots
            /\ isBlocking' = TRUE
            /\ detected' = detected + 1
            /\ overlays' = Append(RemoveById(overlays), detected')
            /\ timers' = timers \cup TimersOf(detected')
            /\ lastEvent' = "detection_alerted"
    /\ UNCHANGED <<mounted, burnAfterReading, localStorage, mergeVars>>
    /\ UNCHANGED <<vars, typingVars, viewVars, leaveVars, eventVars, uploadVars>>

\* Variant: the two removal timers leave the overlay in place.
OverlaysAfterTimerKept(kind, elements) == elements

\* The callbacks: the 3 s and the 5 s timer remove the element they find by
\* id, the 1 s timer touches no element.
OverlaysAfterTimer(kind, elements) ==
    IF kind = "unblock" THEN elements ELSE RemoveById(elements)

FireTimer(t) ==
    /\ t \in timers
    /\ Due(t)
    /\ timers' = timers \ {t}
    /\ overlays' = OverlaysAfterTimer(t.kind, overlays)
    /\ isBlocking' = IF t.kind = "unblock" THEN FALSE ELSE isBlocking
    /\ UNCHANGED <<detected, mergeVars, burnVars>>
    /\ UNCHANGED <<vars, typingVars, viewVars, leaveVars, eventVars, uploadVars>>

FireSomeTimer == \E t \in timers : FireTimer(t)

\* A click on an overlay: its own 3 s timer is cleared, the element removed.
ClickOverlay(n) ==
    /\ \E i \in 1..Len(overlays) : overlays[i] = n
    /\ timers' = timers \ {[kind |-> "remove", n |-> n]}
    /\ overlays' = RemoveElement(overlays, n)
    /\ UNCHANGED <<isBlocking, detected, mergeVars, burnVars>>
    /\ UNCHANGED <<vars, typingVars, viewVars, leaveVars, eventVars, uploadVars>>

\* Escape: the keydown handler of every detection since the last Escape is
\* still on the document; each clears its 3 s timer and removes its element.
PressEscape ==
    /\ timers' = {t \in timers : t.kind # "remove"}
    /\ overlays' = <<>>
    /\ UNCHANGED <<isBlocking, detected, mergeVars, burnVars>>
    /\ UNCHANGED <<vars, typingVars, viewVars, leaveVars, eventVars, uploadVars>>

\* The component unmounts: the overlay found by id is removed, the key
\* listeners go, no timer is cleared.  The 1 s timers are left out from here
\* on: they write the ref of an instance that no longer exists.
ScreenshotUnmount ==
    /\ mounted
    /\ mounted' = FALSE
    /\ overlays' = RemoveById(overlays)
    /\ timers' = {t \in timers : t.kind # "unblock"}
    /\ UNCHANGED <<isBlocking, detected, burnAfterReading, localStorage, lastEvent, mergeVars>>
    /\ UNCHANGED <<vars, typingVars, viewVars, leaveVars, eventVars, uploadVars>>

\* A new instance: useRef(false).
ScreenshotMount ==
    /\ ~mounted
    /\ mounted' = TRUE
    /\ isBlocking' = FALSE
    /\ UNCHANGED <<overlays, timers, detected, burnAfterReading, localStorage, lastEvent, mergeVars>>
    /\ UNCHANGED <<vars, typingVars, viewVars, leaveVars, eventVars, uploadVars>>

InitScreenshot ==
    /\ mode \in Modes
    /\ RoomIdle
    /\ ClientIdle

NextScreenshot ==
    \/ triggerScreenshotAlert
    \/ FireSomeTimer
    \/ \E n \in 1..MaxShots : ClickOverlay(n)
    \/ PressEscape
    \/ ScreenshotUnmount
    \/ ScreenshotMount

SpecScreenshot == InitScreenshot /\ [][NextScreenshot]_<<vars, clientVars>>

\* The event loop runs every timer that is due.
SpecScreenshotLive == SpecScreenshot /\ WF_<<vars, clientVars>>(FireSomeTimer)

\* C24: while isBlocking is set no step emits screenshot:detected and no
\* step adds an overlay; an emission is one event, made by a step that finds
\* isBlocking clear and sets it.  So each window of isBlocking has one event.
C24_OneDetectionPerWindow ==
    [][/\ isBlocking
          => /\ detected' = detected
             /\ \A i \in 1..Len(overlays') : \E j \in 1..Len(overlays) : overlays'[i] = overlays[j]
       /\ detected' # detected
          => detected' = detected + 1 /\ ~isBlocking /\ isBlocking']_<<vars, clientVars>>

\* C24 witness: in a secure window the first detection raised the overlay
\* and emitted; a second one came while isBlocking was set and was ignored.
C24_Witness ==
    /\ mode = "secure"
    /\ isBlocking
    /\ lastEvent = "detection_ignored"
    /\ detected = 1
    /\ overlays = <<1>>

\* C25: an overlay on screen is eventually gone (detections end: at most
\* MaxShots get past the guard).
C25_OverlayEventuallyRemoved ==
    (overlays # <<>>) ~> (overlays = <<>>)

\* C25 witness: the overlay of the last detection is on screen, isBlocking
\* is clear again, and the 3 s and 5 s timers of that detection are pending.
C25_Witness ==
    /\ overlays = <<MaxShots>>
    /\ ~isBlocking
    /\ [kind |-> "remove", n |-> MaxShots] \in timers
    /\ [kind |-> "fallback", n |-> MaxShots] \in timers

(***************************************************************************)
(* handleFileUpload: the fetch, the 30 s safety timeout, the file message.  *)
(***************************************************************************)
\* File sizes in megabytes: one under the 10 MB limit, one over it.
maxSize == 10
FileSizes == {1, maxSize + 1}

\* handleFileUpload up to the await: the size check, the flag, the timeout.
UploadBegun(size) ==
    IF size > maxSize THEN NoUpload
    ELSE [phase |-> "fetching", timeout |-> "armed", sent |-> FALSE, outcome |-> "none"]

\* The Attach File button is disabled while the flag is set.
BeginUpload(i, size) ==
    /\ mounted
    /\ ~uploading
    /\ uploads[i] = NoUpload
    /\ uploads' = [uploads EXCEPT ![i] = UploadBegun(size)]
    /\ uploading' = IF size > maxSize THEN uploading ELSE TRUE
    /\ UNCHANGED <<mergeVars, burnVars>>
    /\ UNCHANGED <<vars, typingVars, viewVars, leaveVars, eventVars, shotVars>>

\* The uploadTimeout callback after 30 s: the flag is reset and the user is
\* told 'Upload timed out'.  The fetch is not aborted.
UploadTimeout(i) ==
    /\ uploads[i].timeout = "armed"
    /\ uploads' = [uploads EXCEPT ![i].timeout = "reported"]
    /\ uploading' = FALSE
    /\ UNCHANGED <<mergeVars, burnVars>>
    /\ UNCHANGED <<vars, typingVars, viewVars, leaveVars, eventVars, shotVars>>

\* The ways out of the try block: the server reports success, the response
\* is not OK, the result is unsuccessful, fetch or the parse throws.
Outcomes == {"success", "http_error", "unsuccessful", "exception"}

\* Variant: the finally block leaves the timer as it is.
UploadSettledTimerKept(u, outcome) ==
    [phase |-> "done", timeout |-> u.timeout, sent |-> outcome = "success", outcome |-> outcome]

\* The rest of handleFileUpload once the fetch settles: message:send if the
\* server reports success, an alert otherwise; finally clearTimeout and the
\* flag reset.
UploadSettled(u, outcome) ==
    [phase |-> "done",
     timeout |-> IF u.timeout = "armed" THEN "cleared" ELSE u.timeout,
     sent |-> outcome = "success",
     outcome |-> outcome]

FetchSettles(i, outcome) ==
    /\ uploads[i].phase = "fetching"
    /\ uploads' = [uploads EXCEPT ![i] = UploadSettled(uploads[i], outcome)]
    /\ uploading' = FALSE
    /\ UNCHANGED <<mergeVars, burnVars>>
    /\ UNCHANGED <<vars, typingVars, viewVars, leaveVars, eventVars, shotVars>>

InitUpload ==
    /\ mode \in Modes
    /\ RoomIdle
    /\ ClientIdle

NextUpload ==
    \/ \E i \in 1..MaxUploads, size \in FileSizes : BeginUpload(i, size)
    \/ \E i \in 1..MaxUploads : UploadTimeout(i)
    \/ \E i \in 1..MaxUploads, outcome \in Outcomes : FetchSettles(i, outcome)

SpecUpload == InitUpload /\ [][NextUpload]_<<vars, clientVars>>

\* C26: once the timeout of an upload has been reported, no step emits
\* message:send for that upload.
C26_NoFileMessageAfterTimeout ==
    [][\A i \in 1..MaxUploads :
          uploads[i].timeout = "reported" => uploads'[i].sent = uploads[i].sent]_<<vars, clientVars>>

\* C33: in a normal room with burnAfterReading set, the step that follows
\* the purge of a page unload or of an unmount (a message:new delivered to
\* the window among them) leaves no entry for the room in the cache.
C33_CacheStaysEmptyAfterPurge ==
    [][(mode = "normal" /\ burnAfterReading /\ lastEvent \in AutomaticReasons)
       => ~localStorage'[getStorageKey(RoomId)].present]_<<vars, clientVars>>

(***************************************************************************)
(* The local cache of a room: load at join, save at each change.           *)
(***************************************************************************)
\* Variant of the expiry test: nothing ever counts as expired.
ExpiredNever(item, t) == FALSE

\* storageData.roomExpiry && new Date(storageData.roomExpiry) < now
Expired(item, t) == item.roomExpiry # NoExpiry /\ item.roomExpiry < t

\* What loadMessagesFromStorage returns.
loadMessagesFromStorage(md, store, roomId, t) ==
    LET item == store[getStorageKey(roomId)]
    IN  IF md # "normal" THEN <<>>
        ELSE IF ~item.present THEN <<>>
        ELSE IF Expired(item, t) THEN <<>>
        ELSE item.messages

\* localStorage after loadMessagesFromStorage: an expired entry is removed.
StorageAfterLoad(md, store, roomId, t) ==
    LET item == store[getStorageKey(roomId)]
    IN  IF md = "normal" /\ item.present /\ Expired(item, t)
        THEN [store EXCEPT ![getStorageKey(roomId)] = NoItem]
        ELSE store

\* key.startsWith('stealthlan_messages_')
IsCacheKey(key) == key[1] = "stealthlan_messages_"

\* localStorage after clearExpiredMessages.
clearExpiredMessages(md, store, t) ==
    IF md # "normal" THEN store
    ELSE [k \in DOMAIN store |->
             IF IsCacheKey(k) /\ store[k].present /\ Expired(store[k], t)
             THEN NoItem
             ELSE store[k]]

\* What the load at the join found.
LoadOutcome(md, store, roomId, t) ==
    LET item == store[getStorageKey(roomId)]
    IN  IF md # "normal" THEN "messages:get"
        ELSE IF ~item.present THEN "join_without_cache"
        ELSE IF Expired(item, t) THEN "join_cache_expired"
        ELSE "join_cache_loaded"

\* The window mounts and its effects run: the join effect loads the cache
\* and emits room:join (normal) or messages:get (secure), then the cleanup
\* effect calls clearExpiredMessages.
JoinRoom ==
    /\ ~mounted
    /\ mounted' = TRUE
    /\ messages' = <<>>
    /\ storedMessages' = loadMessagesFromStorage(mode, localStorage, RoomId, now)
    /\ localStorage' = clearExpiredMessages(mode,
                            StorageAfterLoad(mode, localStorage, RoomId, now), now)
    /\ lastEvent' = LoadOutcome(mode, localStorage, RoomId, now)
    /\ joinPending' = TRUE
    /\ sent' = <<>>
    /\ UNCHANGED <<roomMessages, burnAfterReading, pendingAcks, unloading>>
    /\ UNCHANGED <<vars, outsideBurn>>

\* The callback of room:join (normal) or of messages:get (secure).
JoinAck(success, server) ==
    /\ mounted
    /\ joinPending
    /\ joinPending' = FALSE
    /\ roomMessages' = server
    /\ IF mode = "normal"
       THEN /\ messages' = IF success THEN MergedMessages(storedMessages, server)
                                      ELSE storedMessages
            /\ localStorage' = IF success
                               THEN saveMessagesToStorage(mode, localStorage, RoomId, messages')
                               ELSE localStorage
       ELSE /\ messages' = IF success THEN server ELSE messages
            /\ UNCHANGED localStorage
    /\ lastEvent' = IF success THEN "join_ack" ELSE "join_failed"
    /\ UNCHANGED <<storedMessages, mounted, burnAfterReading, sent, pendingAcks, unloading>>
    /\ UNCHANGED <<vars, outsideBurn>>

\* Variant of the filter: the first entry with the id goes, the others stay.
WithoutFirstWithId(list, messageId) ==
    LET hits == {i \in 1..Len(list) : list[i].id = messageId}
    IN  IF hits = {} THEN list
        ELSE LET k == CHOOSE i \in hits : \A j \in hits : i <= j
             IN  SubSeq(list, 1, k - 1) \o SubSeq(list, k + 1, Len(list))

\* prev.filter(m => m.id !== messageId)
WithoutId(list, messageId) == SelectSeq(list, LAMBDA m : m.id # messageId)

\* message:deleted: filter, and save in normal mode.
MessageDeleted(messageId) ==
    /\ mounted
    /\ messages' = WithoutId(messages, messageId)
    /\ localStorage' = saveMessagesToStorage(mode, localStorage, RoomId, messages')
    /\ lastEvent' = "message:deleted"
    /\ UNCHANGED <<mounted, burnAfterReading, storedMessages, roomMessages, leaveVars>>
    /\ UNCHANGED <<vars, outsideBurn>>

\* The interval of the cleanup effect: clearExpiredMessages every 5 minutes.
CleanupInterval ==
    /\ mounted
    /\ mode = "normal"
    /\ localStorage' = clearExpiredMessages(mode, localStorage, now)
    /\ lastEvent' = "cleanup_interval"
    /\ UNCHANGED <<mounted, burnAfterReading, mergeVars, leaveVars>>
    /\ UNCHANGED <<vars, outsideBurn>>

\* The ids a message:deleted may carry: m3 is the id of no message.
DeletedIds == {"m1", "m2", "m3"}

\* The lists the server may hand out: its ids are unique.
ServerNotes ==
    {l \in SeqsUpTo(Notes, MaxServer) :
        \A i, j \in 1..Len(l) : l[i].id = l[j].id => i = j}

\* A window about to mount.  The browser may hold a cache that an earlier
\* stay in a normal room of this id left, saved with or without an expiry.
InitCache ==
    /\ mode \in Modes
    /\ RoomIdle
    /\ MergeIdle
    /\ ViewIdle
    /\ mounted = FALSE
    /\ burnAfterReading = FALSE
    /\ \E list \in SeqsUpTo(Notes, 1), e \in {NoExpiry, expiresAt},
          mine \in BOOLEAN, other \in BOOLEAN :
          localStorage =
              [k \in StorageKeys |->
                  IF k = getStorageKey(RoomId) /\ mine THEN StoredUntil(list, e)
                  ELSE IF k = getStorageKey(OtherRoomId) /\ other
                       THEN Stored(<<OtherRoomsNote>>)
                  ELSE NoItem]
    /\ lastEvent = "none"
    /\ SessionIdle

NextCache ==
    \/ JoinRoom
    \/ \E success \in BOOLEAN, server \in ServerNotes : JoinAck(success, server)
    \/ \E m \in Notes : MessageNew(m)
    \/ \E id \in DeletedIds : MessageDeleted(id)
    \/ CleanupInterval
    \/ UnmountCleanup
    \/ Tick

SpecCache == InitCache /\ [][NextCache]_<<vars, clientVars>>

\* The entry of this room in the cache.
CacheEntry == localStorage[getStorageKey(RoomId)]

\* C31: when a normal window mounts and the cached roomExpiry is earlier
\* than the current time, the load removes the entry and returns the empty
\* list: nothing of the cache is handed to the merge or displayed.
C31_ExpiredCacheNeverUsed ==
    [][(/\ mode = "normal"
        /\ ~mounted /\ mounted'
        /\ CacheEntry.present
        /\ CacheEntry.roomExpiry # NoExpiry
        /\ CacheEntry.roomExpiry < now)
       => /\ storedMessages' = <<>>
          /\ messages' = <<>>
          /\ ~localStorage'[getStorageKey(RoomId)].present]_<<vars, clientVars>>

\* C31 witness: a normal window has mounted after the expiry of its room;
\* the load found the entry expired, removed it and returned nothing.
C31_Witness ==
    /\ mode = "normal"
    /\ mounted
    /\ lastEvent = "join_cache_expired"
    /\ now > expiresAt
    /\ storedMessages = <<>>
    /\ ~CacheEntry.present

C34_SecureModeNeverPersists ==
    [][mode = "secure"
       => /\ localStorage' = localStorage
          /\ storedMessages' = <<>>
          /\ loadMessagesFromStorage(mode, localStorage', RoomId, now') = <<>>]_<<vars, clientVars>>

\* C34 witness: a secure window has joined, received messages and handled a
\* message:deleted, and the room has no cache entry.
C34_Witness ==
    /\ mode = "secure"
    /\ lastEvent = "message:deleted"
    /\ roomMessages # <<>>
    /\ Len(messages) = 1
    /\ ~CacheEntry.present
\* C37: the document never holds more than one element with the id
\* screenshot-blocked-overlay, whatever triggers, clicks, Escape presses,
\* timer callbacks, unmounts and mounts have happened.
C37_AtMostOneOverlay ==
    Len(overlays) <= 1

\* C37 witness: a second detection got past the guard while the 3 s timer of
\* the first was still pending, and one overlay, the second, is on screen.
C37_Witness ==
    /\ overlays = <<2>>
    /\ lastEvent = "detection_alerted"
    /\ isBlocking
    /\ [kind |-> "remove", n |-> 1] \in timers

\* C38: the callback of a 3 s or 5 s timer removes no overlay made by a
\* detection later than the one that armed it.
C38_TimerSparesLaterOverlay ==
    [][\A t \in timers :
          FireTimer(t)
          => \A i \in 1..Len(overlays) :
                overlays[i] > t.n
                => \E j \in 1..Len(overlays') : overlays'[j] = overlays[i]]_<<vars, clientVars>>
\* C39: between two mounts of a window no step takes a file id out of its
\* viewedFiles, and in a secure room a click on a file whose id is in the
\* set is answered "already viewed" and opens no preview.
C39_ViewedFilesOnlyGrows ==
    [][\A v \in Users :
          /\ Remount(v) \/ viewedFiles[v] \subseteq viewedFiles'[v]
          /\ \A m \in Files :
                (mode = "secure" /\ FileId(m) \in viewedFiles[v] /\ ClickFile(v, m))
                => /\ lastOpen'.result = "AlreadyViewed"
                   /\ filePreviewModal' = filePreviewModal
                   /\ FileId(m) \in viewedFiles'[v]]_<<vars, clientVars>>

\* C39 witness: in a secure room b has opened both files, the second after
\* the first, and a later click on the first was answered "already viewed".
C39_Witness ==
    /\ mode = "secure"
    /\ viewedFiles["b"] = {"f1", "/uploads/2"}
    /\ lastOpen = [viewer |-> "b", file |-> "f1", result |-> "AlreadyViewed", nth |-> 1]
\* C36: the step in which an upload that passed the size check ends, by any
\* of the four ways out, leaves the uploading flag false and the upload's
\* 30 s timer no longer armed; so no ended upload has an armed timer, and
\* the flag is never set without an upload in flight.
C36_UploadEndsWithFlagAndTimerReset ==
    [][/\ \A i \in 1..MaxUploads :
            (uploads[i].phase = "fetching" /\ uploads'[i].phase = "done")
            => /\ uploading' = FALSE
               /\ uploads'[i].timeout # "armed"
       /\ \A i \in 1..MaxUploads :
            uploads'[i].phase = "done" => uploads'[i].timeout # "armed"
       /\ uploading' => \E i \in 1..MaxUploads : uploads'[i].phase = "fetching"]_<<vars, clientVars>>

\* C36 witness: three uploads have ended, one by a response that was not
\* OK, one by an unsuccessful result, one by an exception; each timer was
\* cleared and the flag is false.
C36_Witness ==
    /\ ~uploading
    /\ uploads[1].outcome = "http_error"
    /\ uploads[2].outcome = "unsuccessful"
    /\ uploads[3].outcome = "exception"
    /\ \A i \in 1..3 : uploads[i].timeout = "cleared" /\ ~uploads[i].sent

(***************************************************************************)
(* The typing indicator: user:typing, user:stopped-typing and the 3 s      *)
(* typing-stop timer.                                                      *)
(***************************************************************************)
\* What the user may leave in the input.
InputTexts == {"", "x"}

\* clearTimeout(typingTimeoutRef.current)
ClearTypingTimeout(pending, ref) == pending \ {ref}

\* What the typing actions leave alone.
outsideTyping == <<vars, mergeVars, viewVars, leaveVars, eventVars, shotVars, uploadVars>>

\* handleTyping: emit user:typing, clear the timer of the ref, arm a new one.
handleTyping ==
    /\ keystrokes < MaxKeys
    /\ keystrokes' = keystrokes + 1
    /\ lastTyping' = "user:typing"
    /\ typingTimers' = ClearTypingTimeout(typingTimers, typingTimeoutRef) \cup {keystrokes'}
    /\ typingTimeoutRef' = keystrokes'

\* handleStopTyping: emit user:stopped-typing, clear the timer of the ref.
handleStopTyping ==
    /\ lastTyping' = "user:stopped-typing"
    /\ typingTimers' = ClearTypingTimeout(typingTimers, typingTimeoutRef)
    /\ UNCHANGED <<typingTimeoutRef, keystrokes>>

\* onChange of the message input.
InputChange(text) ==
    /\ mounted
    /\ inputMessage' = text
    /\ IF text # "" THEN handleTyping ELSE handleStopTyping
    /\ UNCHANGED <<burnVars, outsideTyping>>

\* handleSendMessage: the Send button or Enter, with text in the input.
handleSendMessage ==
    /\ mounted
    /\ inputMessage # ""
    /\ inputMessage' = ""
    /\ handleStopTyping
    /\ UNCHANGED <<burnVars, outsideTyping>>

\* The callback of a typing-stop timer, 3 s after it was armed: the
\* handleStopTyping of the window that armed it, whose ref holds this timer.
TypingTimerFires(id) ==
    /\ id \in typingTimers
    /\ lastTyping' = "user:stopped-typing"
    /\ typingTimers' = typingTimers \ {id}
    /\ UNCHANGED <<inputMessage, typingTimeoutRef, keystrokes>>
    /\ UNCHANGED <<burnVars, outsideTyping>>

\* The window unmounts: no cleanup clears the typing-stop timer.
TypingUnmount ==
    /\ mounted
    /\ mounted' = FALSE
    /\ UNCHANGED <<burnAfterReading, localStorage, lastEvent, typingVars, outsideTyping>>

\* The window is mounted again in the same page: useState(''), useRef(null).
TypingMount ==
    /\ ~mounted
    /\ mounted' = TRUE
    /\ inputMessage' = ""
    /\ typingTimeoutRef' = NoTimer
    /\ UNCHANGED <<typingTimers, keystrokes, lastTyping>>
    /\ UNCHANGED <<burnAfterReading, localStorage, lastEvent, outsideTyping>>

InitTyping ==
    /\ mode \in Modes
    /\ RoomIdle
    /\ ClientIdle

NextTyping ==
    \/ \E text \in InputTexts : InputChange(text)
    \/ handleSendMessage
    \/ \E id \in 1..MaxKeys : TypingTimerFires(id)
    \/ TypingUnmount
    \/ TypingMount

SpecTyping == InitTyping /\ [][NextTyping]_<<vars, clientVars>>

\* C35, its first half: at most one typing-stop timer of the client is
\* pending in any state.
C35_OneTypingTimer ==
    Cardinality(typingTimers) <= 1
=============================================================================
